---- MODULE Spec2Model ----
(***************************************************************************)
(* Model of the snowball stock tracker: the document store behind          *)
(* src/db.py (find_one / update_one / insert_one / $unset), the Stock      *)
(* model with the part of the metrics engine that decides expected_rate,   *)
(* the daily snapshot save_record, and the Flask routes of src/app.py.     *)
(*                                                                         *)
(* A stock document is a function from field names to values; the store    *)
(* is the sequence of documents in natural (insertion) order.              *)
(* Numbers are integers: percentages are whole percents, and the inputs    *)
(* are chosen so that every division the metrics make is exact.            *)
(* The value of the `code` field is a pair <<type, text>>, because the     *)
(* toggle route can store a Python bool under any field name, `code`       *)
(* included, and a bool is never equal to a str.                           *)
(***************************************************************************)
EXTENDS Integers, Sequences, FiniteSets, TLC

VARIABLES store, today, nreq, last, workers

vars == <<store, today, nreq, last, workers>>

\* ---------------------------------------------------------------- bounds
\* Requests served in one behaviour of the sequential specification.
MaxReq == 3
\* Calendar days the clock runs through.
MaxDay == 2

\* ---------------------------------------------------- program constants
FUTURE == 10
LAST_YEAR == 2025

\* ----------------------------------------------------------- input sets
\* Stock codes that appear in request paths and forms.
Codes == {"A", "B"}
\* current_price values the external source reports.
Prices == {1000, 1024}
\* Values posted to /stock/<code>/my_price.
MyPrices == {6000}
\* Values posted to /stock/<code>/adjust.
AdjustedRoes == {50}
\* Values posted to /stock/<code>/adjustpbr.
AdjustedPbrs == {2}
\* Values posted to /stock/<code>/note.
Notes == {"buy"}
\* <status> segments of /stock/<code>/<status>/<on>: the three flags and one
\* other field name, which the route accepts as well.
Statuses == {"starred", "owned", "doubtful", "code"}
\* <on> segments of the same route.
Ons == {"on", "off"}
\* <status> segments of /stocks/<status>: "" is the route without one, and
\* "other" a segment the view does not know.
ListStatuses ==
    {"", "starred", "owned", "starredorowned", "doubtful", "bad", "other"}
\* Arguments given to unset_keys.
UnsetArgs == {<<"records">>, <<"current_price">>}

\* ------------------------------------------------------- python values
\* Python's None, as find_one returns it.
None == [py_none |-> TRUE]
\* A str and a bool as values of the `code` field.
StrCode(c) == <<"str", c>>
BoolCode(b) == <<"bool", IF b THEN "True" ELSE "False">>
NoneCode == <<"NoneType", "None">>

\* dict(): the empty mapping.
EmptyDoc == [k \in {} |-> TRUE]

\* dict.get(key, default)
Get(d, k, default) == IF k \in DOMAIN d THEN d[k] ELSE default

\* d[key] = value on a copy of d
SetItem(d, k, v) == (k :> v) @@ d

\* The value the toggle route stores under `status`: a bool.
FlagValue(status, b) == IF status = "code" THEN BoolCode(b) ELSE b

\* Stock(x): UserDict.__init__(dict=None) copies a mapping, and builds an
\* empty mapping when it is handed None.
Stock(x) == IF x = None THEN EmptyDoc ELSE x

\* ------------------------------------------------------ document store
\* Position of the first document whose `code` equals codeval, 0 if none.
\* The filter {'code': None} matches a document without the field too.
Matches(doc, codeval) ==
    IF "code" \in DOMAIN doc THEN doc["code"] = codeval ELSE codeval = NoneCode

FindIdx(s, codeval) ==
    IF \E i \in 1..Len(s) : Matches(s[i], codeval)
    THEN CHOOSE i \in 1..Len(s) :
            /\ Matches(s[i], codeval)
            /\ \A j \in 1..(i - 1) : ~Matches(s[j], codeval)
    ELSE 0

\* db.stocks.find_one({'code': codeval})
FindOne(s, codeval) ==
    LET i == FindIdx(s, codeval) IN IF i = 0 THEN None ELSE s[i]

\* Faulty variant of SetFields: the document is replaced by the given fields (an
\* update without $set), its _id kept.
SetFieldsReplacing(doc, fields) ==
    fields @@ [k \in {"_id"} \cap DOMAIN doc |-> doc[k]]

\* The document after {'$set': fields}: the given fields replace or add,
\* every other field stays.
SetFields(doc, fields) == fields @@ doc

\* db.stocks.update_one({'code': codeval}, {'$set': fields}): the first match
\* is merged; the store refuses a $set that would change _id.
UpdateOne(s, codeval, fields) ==
    LET i == FindIdx(s, codeval) IN
    IF i = 0 THEN [store |-> s, out |-> "updated"]
    ELSE IF "_id" \in DOMAIN fields /\ fields["_id"] # s[i]["_id"]
         THEN [store |-> s, out |-> "WriteError"]
         ELSE [store |-> [s EXCEPT ![i] = SetFields(s[i], fields)],
               out |-> "updated"]

\* db.stocks.insert_one(doc): the store assigns a fresh _id to a document
\* that has none, and refuses a second document with an _id it holds.
InsertOne(s, doc) ==
    IF "_id" \in DOMAIN doc
    THEN IF \E i \in 1..Len(s) : s[i]["_id"] = doc["_id"]
         THEN [store |-> s, out |-> "DuplicateKeyError"]
         ELSE [store |-> Append(s, doc), out |-> "inserted"]
    ELSE [store |-> Append(s, SetItem(doc, "_id", Len(s) + 1)),
          out |-> "inserted"]

\* db.stocks.update({}, {'$unset': {key: 1}}, multi=True)
UnsetKey(s, key) ==
    [i \in 1..Len(s) |-> [k \in DOMAIN s[i] \ {key} |-> s[i][k]]]

\* ------------------------------------------------------ metrics engine
RECURSIVE Gcd(_, _)
Gcd(a, b) == IF b = 0 THEN a ELSE Gcd(b, a % b)

RECURSIVE Pow(_, _)
Pow(b, e) == IF e = 0 THEN 1 ELSE b * Pow(b, e - 1)

RECURSIVE SumSeq(_)
SumSeq(q) == IF q = <<>> THEN 0 ELSE Head(q) + SumSeq(Tail(q))

\* Stock.current_price
CurrentPrice(stock) == Get(stock, "current_price", 0)

\* Stock.year_stat(stat): the pairs (year, value) of a series. Position i of
\* the sequence is Python index i - 1.
YearStat(stock, stat) ==
    LET stats == Get(stock, stat, <<>>) IN
    IF stats = <<>> THEN << <<0, 0>> >>
    ELSE [i \in 1..Len(stats) |->
            <<LAST_YEAR - (stock["last_year_index"] - (i - 1)), stats[i]>>]

\* year_stat's assert: a non-empty series read without last_year_index.
YearStatFails(stock, stat) ==
    Get(stock, stat, <<>>) # <<>> /\ "last_year_index" \notin DOMAIN stock

\* Stock.last_four_years_roe
LastFourYearsRoe(stock) ==
    LET InWindow(roe) == roe[2] # 0 /\ roe[1] >= LAST_YEAR - 3 /\ roe[1] <= LAST_YEAR
        kept == SelectSeq(YearStat(stock, "ROEs"), InWindow)
    IN [i \in 1..Len(kept) |-> kept[i][2]]

\* Stock.mean_roe
MeanRoe(stock) ==
    LET roes == LastFourYearsRoe(stock) IN
    IF roes = <<>> THEN 0 ELSE SumSeq(roes) \div Len(roes)

\* Stock.dividend_tax_adjust: dividend_rate * (DIVIDEND_TAX_RATE / 100),
\* the rate of 15.40 percent written as 154 / 1000.
DividendTaxAdjust(stock) == (Get(stock, "dividend_rate", 0) * 154) \div 1000

\* Stock.future_roe
FutureRoe(stock) == MeanRoe(stock) - DividendTaxAdjust(stock)

FutureRoeFails(stock) == YearStatFails(stock, "ROEs")

\* adjusted_future_roe or future_roe
EffectiveRoe(stock) ==
    IF Get(stock, "adjusted_future_roe", 0) # 0
    THEN Get(stock, "adjusted_future_roe", 0)
    ELSE FutureRoe(stock)

\* Stock.calculable
Calculable(stock) == Get(stock, "bps", 0) > 0 /\ EffectiveRoe(stock) > 0

\* Stock.calc_future_bps(future): int(bps * (1 + roe / 100) ** future), the
\* growth factor kept as a reduced fraction.
CalcFutureBps(stock, future) ==
    IF ~Calculable(stock) THEN 0
    ELSE LET roe == EffectiveRoe(stock)
             g == Gcd(100 + roe, 100)
             num == (100 + roe) \div g
             den == 100 \div g
         IN (Get(stock, "bps", 0) * Pow(num, future)) \div Pow(den, future)

\* Stock.expected_rate raises: the assert of year_stat, or the division by a
\* current_price of 0 in calc_expected_rate.
ExpectedRateFails(stock) ==
    \/ /\ Get(stock, "bps", 0) > 0
       /\ Get(stock, "adjusted_future_roe", 0) = 0
       /\ FutureRoeFails(stock)
    \/ CurrentPrice(stock) = 0

\* Stock.expected_rate: ((future_bps / price) ** (1 / FUTURE) - 1) * 100,
\* represented by the ratio future_bps / price it is a strictly increasing
\* function of.
ExpectedRate(stock) ==
    [num |-> CalcFutureBps(stock, FUTURE), den |-> CurrentPrice(stock)]

\* expected_rate > 0, for a positive price
RatePositive(r) == r.num > r.den
\* expected_rate < 0, for a positive price
RateNegative(r) == r.num < r.den
\* a.expected_rate < b.expected_rate, for positive prices
RateLess(a, b) == a.num * b.den < b.num * a.den

\* ---------------------------------------------------------- all_stocks
\* The find argument is the set of flag fields one of which must be True;
\* the empty set is find=None.
FindMatches(doc, find) ==
    find = {} \/ \E f \in find : Get(doc, f, FALSE) = TRUE

\* Faulty variant of FilterFunc: the good partition keeps expected_rate >= 0.
FilterFuncNonNegative(stock, filter_bad) ==
    IF filter_bad THEN ~RateNegative(ExpectedRate(stock))
    ELSE RateNegative(ExpectedRate(stock))

\* filter_func of all_stocks
FilterFunc(stock, filter_bad) ==
    IF filter_bad THEN RatePositive(ExpectedRate(stock))
    ELSE RateNegative(ExpectedRate(stock))

\* Order of the title strings.
TitleOrd(t) == IF t = "A" THEN 1 ELSE IF t = "B" THEN 2 ELSE IF t = "C" THEN 3 ELSE 0

\* key(a) < key(b) for the key attr_or_key_getter(order_by, .) resolves: the
\* property of that name, else the raw field with 0 for an absent one.
KeyLess(order_by, a, b) ==
    IF order_by = "expected_rate" THEN RateLess(ExpectedRate(a), ExpectedRate(b))
    ELSE IF order_by = "title"
         THEN TitleOrd(Get(a, "title", "")) < TitleOrd(Get(b, "title", ""))
         ELSE Get(a, order_by, 0) < Get(b, order_by, 0)

\* x sorts strictly before y
Before(order_by, ordering, x, y) ==
    IF ordering = "asc" THEN KeyLess(order_by, x, y) ELSE KeyLess(order_by, y, x)

RECURSIVE InsertSorted(_, _, _, _)
InsertSorted(order_by, ordering, x, q) ==
    IF q = <<>> THEN <<x>>
    ELSE IF Before(order_by, ordering, x, Head(q)) THEN <<x>> \o q
         ELSE <<Head(q)>> \o InsertSorted(order_by, ordering, x, Tail(q))

\* sorted(q, key=..., reverse=(ordering != 'asc')): stable.
RECURSIVE Sorted(_, _, _)
Sorted(order_by, ordering, q) ==
    IF q = <<>> THEN <<>>
    ELSE InsertSorted(order_by, ordering, q[Len(q)],
                      Sorted(order_by, ordering, SubSeq(q, 1, Len(q) - 1)))

\* all_stocks(order_by, ordering, find, filter_bad): the filter computes
\* expected_rate of every document found, so one failure fails the call.
AllStocks(s, order_by, ordering, find, filter_bad) ==
    LET Found(doc) == FindMatches(doc, find)
        dicts == SelectSeq(s, Found)
        Keep(doc) == FilterFunc(Stock(doc), filter_bad)
    IN IF \E i \in 1..Len(dicts) : ExpectedRateFails(Stock(dicts[i]))
       THEN [out |-> "error", list |-> <<>>]
       ELSE [out |-> "ok",
             list |-> Sorted(order_by, ordering, SelectSeq(dicts, Keep))]

\* ---------------------------------------------------- save / snapshot
\* stock_by_code(code)
StockByCode(s, codeval) == Stock(FindOne(s, codeval))

\* save_stock(stock): find_one, then update_one or insert_one. stock['code']
\* raises KeyError for a mapping without the key.
SaveStock(s, stock) ==
    IF "code" \notin DOMAIN stock THEN [store |-> s, out |-> "KeyError"]
    ELSE LET exist == FindOne(s, stock["code"]) IN
         IF exist # None THEN UpdateOne(s, exist["code"], stock)
         ELSE InsertOne(s, stock)

\* The snapshot save_record builds.
Record(stock, day) ==
    [date |-> day, buy |-> 0, sell |-> 0,
     bps |-> Get(stock, "bps", 0),
     current_price |-> CurrentPrice(stock),
     future_roe |-> FutureRoe(stock),
     roe |-> Get(stock, "roe", 0),
     pbr |-> Get(stock, "pbr", 0),
     expected_rate |-> ExpectedRate(stock)]

\* Faulty variant of PutRecord: the snapshot is always appended.
PutRecordAppending(records, record, day) == Append(records, record)

\* records after save_record's replace-or-append
PutRecord(records, record, day) ==
    IF Len(records) > 0 /\ records[Len(records)].date = day
    THEN [records EXCEPT ![Len(records)] = record]
    ELSE Append(records, record)

\* The mapping save_record hands to save_stock.
RecordPayload(stock, records) ==
    [code |-> Get(stock, "code", NoneCode), records |-> records]

\* Faulty variant of SaveRecord: the starred-or-owned test is missing.
SaveRecordUnguarded(s, stock, day) ==
    IF FutureRoeFails(stock) \/ ExpectedRateFails(stock)
    THEN [store |-> s, out |-> "error", saved |-> None]
    ELSE LET payload == RecordPayload(stock,
                 PutRecord(Get(stock, "records", <<>>), Record(stock, day), day))
             r == SaveStock(s, payload)
         IN [store |-> r.store, out |-> r.out, saved |-> payload]

\* Stock.save_record() on the instance `stock`, on day `day`: nothing for a
\* stock neither starred nor owned; an error of the metrics is raised before
\* anything is written.
SaveRecord(s, stock, day) ==
    IF ~Get(stock, "starred", FALSE) /\ ~Get(stock, "owned", FALSE)
    THEN [store |-> s, out |-> "skipped", saved |-> None]
    ELSE IF FutureRoeFails(stock) \/ ExpectedRateFails(stock)
         THEN [store |-> s, out |-> "error", saved |-> None]
         ELSE LET payload == RecordPayload(stock,
                      PutRecord(Get(stock, "records", <<>>), Record(stock, day), day))
                  r == SaveStock(s, payload)
              IN [store |-> r.store, out |-> r.out, saved |-> payload]

\* unset_keys(keys)
RECURSIVE UnsetKeys(_, _)
UnsetKeys(s, keys) ==
    IF keys = <<>> THEN s ELSE UnsetKeys(UnsetKey(s, Head(keys)), Tail(keys))

\* ------------------------------------------------------------ ingestion
\* The field set parse_snowball(code) hands to save_stock: identity and
\* ingested fields and the series, never a user-editable field or records.
IngestPayload(c, price) ==
    [code |-> StrCode(c), title |-> c, current_price |-> price, bps |-> 1,
     roe |-> 100, pbr |-> 1, dividend_rate |-> 0, last_year_index |-> 0,
     ROEs |-> <<100>>]

\* parse_snowball(code)
ParseSnowball(s, c, price) == SaveStock(s, IngestPayload(c, price))

\* ------------------------------------------------------- route helpers
\* stock[field] = value; db.save_stock(stock), on the instance fetched for
\* the code of the request path.
EditStock(s, c, field, value) ==
    SaveStock(s, SetItem(StockByCode(s, StrCode(c)), field, value))

\* Faulty variant of ApplyStatus: the flag is set and the other one is left alone.
ApplyStatusNotClearing(stock, status, on) ==
    SetItem(stock, status, FlagValue(status, on = "on"))

\* The instance the toggle route saves.
ApplyStatus(stock, status, on) ==
    LET v == (on = "on")
        set == SetItem(stock, status, FlagValue(status, v))
    IN IF status = "owned" /\ v THEN SetItem(set, "starred", FALSE)
       ELSE IF status = "starred" /\ v THEN SetItem(set, "owned", FALSE)
       ELSE set

\* find of the list view for a <status> segment
FindOfStatus(status) ==
    IF status = "starred" THEN {"starred"}
    ELSE IF status = "owned" THEN {"owned"}
    ELSE IF status = "starredorowned" THEN {"starred", "owned"}
    ELSE IF status = "doubtful" THEN {"doubtful"}
    ELSE {}

\* filter_bad of the list view for a <status> segment
FilterBadOfStatus(status) == status # "bad"

\* What a request did: the route, its code and argument, how it ended, the
\* mapping it handed to save_stock (None if it did not) and what it read.
Req(op, c, arg, out, saved, result) ==
    [op |-> op, code |-> c, arg |-> arg, out |-> out, saved |-> saved,
     result |-> result]

\* ---------------------------------------------------------------- state
\* The collection before the process starts: empty, or holding two stocks
\* ingested and edited by an earlier run: "A", starred, with a price and a
\* note of the user's, and "C", doubtful, with an adjusted future ROE.
SeedDoc ==
    [k \in {"_id", "starred", "my_price", "note"} |->
        IF k = "_id" THEN 1 ELSE IF k = "starred" THEN TRUE
        ELSE IF k = "my_price" THEN 5000 ELSE "watch"]
    @@ IngestPayload("A", 1000)

SeedBad ==
    [k \in {"_id", "doubtful", "adjusted_future_roe"} |->
        IF k = "_id" THEN 2 ELSE IF k = "doubtful" THEN TRUE ELSE 50]
    @@ IngestPayload("C", 1000)

InitStores == {<<>>, <<SeedDoc, SeedBad>>}

Workers == {1, 2}

Idle == [pc |-> "idle"]

Init ==
    /\ store \in InitStores
    /\ today = 1
    /\ nreq = 0
    /\ last = Req("start", "", "", "ok", None, None)
    /\ workers = [w \in Workers |-> Idle]

\* A request that ends after one call of save_stock(stock) (or in it), on
\* the instance `fetched` changed into `stock`.
Saved(op, c, arg, fetched, stock, r) ==
    /\ store' = r.store
    /\ last' = Req(op, c, arg, r.out, stock, fetched)
    /\ nreq' = nreq + 1
    /\ UNCHANGED <<today, workers>>

\* ------------------------------------------------------------- requests
\* GET /, /stocks, /stocks/<status>
Stocks ==
    \E status \in ListStatuses, ordering \in {"desc", "asc"} :
        LET r == AllStocks(store, "expected_rate", ordering,
                           FindOfStatus(status), FilterBadOfStatus(status))
        IN /\ nreq < MaxReq
           /\ last' = Req("stocks", "", <<status, ordering>>, r.out, None, r.list)
           /\ nreq' = nreq + 1
           /\ UNCHANGED <<store, today, workers>>

\* GET /stocks/fill: s.fill_snowball_stat() for every listed stock. Stock
\* defines no such method, so the first one raises AttributeError.
StocksFill ==
    /\ nreq < MaxReq
    /\ LET r == AllStocks(store, "title", "asc", {}, TRUE)
           out == IF r.out = "error" THEN "error"
                  ELSE IF r.list = <<>> THEN "redirect" ELSE "AttributeError"
       IN /\ last' = Req("fill", "", today, out, None, r.list)
          /\ nreq' = nreq + 1
          /\ UNCHANGED <<store, today, workers>>

\* GET /stock/<code>
StockDetail ==
    \E c \in Codes :
        /\ nreq < MaxReq
        /\ last' = Req("stock", c, "", "fetched", None,
                       StockByCode(store, StrCode(c)))
        /\ nreq' = nreq + 1
        /\ UNCHANGED <<store, today, workers>>

\* GET /stock/refresh/<code>
StockRefresh ==
    \E c \in Codes, price \in Prices :
        /\ nreq < MaxReq
        /\ Saved("refresh", c, price, None, IngestPayload(c, price),
                 ParseSnowball(store, c, price))

\* POST /stocks/add
AddStock ==
    \E c \in Codes \cup {""}, price \in Prices :
        /\ nreq < MaxReq
        /\ IF c # ""
           THEN Saved("add", c, price, None, IngestPayload(c, price),
                      ParseSnowball(store, c, price))
           ELSE /\ last' = Req("add", c, price, "redirect", None, None)
                /\ nreq' = nreq + 1
                /\ UNCHANGED <<store, today, workers>>

\* An edit route: fetch by code, set one field, save.
Edit(op, c, field, value) ==
    /\ nreq < MaxReq
    /\ Saved(op, c, value, StockByCode(store, StrCode(c)),
             SetItem(StockByCode(store, StrCode(c)), field, value),
             EditStock(store, c, field, value))

\* POST /stock/<code>/my_price
StockMyPrice ==
    \E c \in Codes, v \in MyPrices : Edit("my_price", c, "my_price", v)

\* POST /stock/<code>/adjust
StockAdjustedFutureRoe ==
    \E c \in Codes, v \in AdjustedRoes : Edit("adjust", c, "adjusted_future_roe", v)

\* POST /stock/<code>/adjustpbr
StockAdjustedFuturePbr ==
    \E c \in Codes, v \in AdjustedPbrs : Edit("adjustpbr", c, "adjusted_future_pbr", v)

\* GET /stock/<code>/adjustpbr/clear
StockClearAdjustedFuturePbr ==
    \E c \in Codes : Edit("adjustpbr/clear", c, "adjusted_future_pbr", 0)

\* POST /stock/<code>/note
StockUpdateNote ==
    \E c \in Codes, v \in Notes : Edit("note", c, "note", v)

\* GET /stock/<code>/clear
StockClearAdjustedFutureRoe ==
    \E c \in Codes : Edit("clear", c, "adjusted_future_roe", 0)

\* GET /stock/<code>/<status>/<on>
StockStatus ==
    \E c \in Codes, status \in Statuses, on \in Ons :
        /\ nreq < MaxReq
        /\ LET fetched == StockByCode(store, StrCode(c))
               stock == ApplyStatus(fetched, status, on)
           IN Saved("status", c, <<status, on>>, fetched, stock,
                    SaveStock(store, stock))

\* The snapshot operation: stock_by_code(code).save_record()
Snapshot ==
    \E c \in Codes :
        /\ nreq < MaxReq
        /\ LET stock == StockByCode(store, StrCode(c))
               r == SaveRecord(store, stock, today)
           IN /\ store' = r.store
              /\ last' = Req("save_record", c, today, r.out, r.saved, stock)
              /\ nreq' = nreq + 1
              /\ UNCHANGED <<today, workers>>

\* The administrative bulk field removal.
BulkUnset ==
    \E keys \in UnsetArgs :
        /\ nreq < MaxReq
        /\ store' = UnsetKeys(store, keys)
        /\ last' = Req("unset_keys", "", keys, "ok", None, None)
        /\ nreq' = nreq + 1
        /\ UNCHANGED <<today, workers>>

\* Midnight passes.
Tick ==
    /\ today < MaxDay
    /\ today' = today + 1
    /\ UNCHANGED <<store, nreq, last, workers>>

Next ==
    \/ Stocks
    \/ StocksFill
    \/ StockDetail
    \/ StockRefresh
    \/ AddStock
    \/ StockMyPrice
    \/ StockAdjustedFutureRoe
    \/ StockAdjustedFuturePbr
    \/ StockClearAdjustedFuturePbr
    \/ StockUpdateNote
    \/ StockClearAdjustedFutureRoe
    \/ StockStatus
    \/ Snapshot
    \/ BulkUnset
    \/ Tick

Spec == Init /\ [][Next]_vars

\* -------------------------------------------------- concurrent requests
\* Two workers, each serving one request, interleaved at the store's
\* operations: the find_one of stock_by_code, the find_one of save_stock,
\* and its update_one or insert_one.
WorkerReqs ==
    [op : {"note"}, code : Codes, field : {"note"}, value : Notes]
    \cup [op : {"my_price"}, code : Codes, field : {"my_price"}, value : MyPrices]
    \cup [op : {"refresh"}, code : Codes, field : {""}, value : Prices]

\* Lines 92-93 (57-58) of an edit route: the instance is fetched and the
\* field set on it. An ingestion starts with its payload.
Begin(w) ==
    \E req \in WorkerReqs :
        /\ workers[w].pc = "idle"
        /\ LET stock == IF req.op = "refresh"
                        THEN IngestPayload(req.code, req.value)
                        ELSE SetItem(StockByCode(store, StrCode(req.code)),
                                     req.field, req.value)
           IN workers' = [workers EXCEPT ![w] =
                             [pc |-> "save", req |-> req, stock |-> stock]]
        /\ nreq' = nreq + 1
        /\ UNCHANGED <<store, today, last>>

\* save_stock, line 348: exist = find_one(...)
Find(w) ==
    /\ workers[w].pc = "save"
    /\ LET stock == workers[w].stock IN
       workers' = [workers EXCEPT ![w] =
          IF "code" \notin DOMAIN stock
          THEN [pc |-> "done", req |-> workers[w].req, out |-> "KeyError"]
          ELSE [pc |-> "write", req |-> workers[w].req, stock |-> stock,
                exist |-> FindOne(store, stock["code"])]]
    /\ UNCHANGED <<store, today, nreq, last>>

\* save_stock, lines 349-353: update_one if exist, else insert_one
Write(w) ==
    /\ workers[w].pc = "write"
    /\ LET stock == workers[w].stock
           exist == workers[w].exist
           r == IF exist # None THEN UpdateOne(store, exist["code"], stock)
                ELSE InsertOne(store, stock)
       IN /\ store' = r.store
          /\ workers' = [workers EXCEPT ![w] =
                [pc |-> "done", req |-> workers[w].req, out |-> r.out]]
    /\ UNCHANGED <<today, nreq, last>>

ConcNext == \E w \in Workers : Begin(w) \/ Find(w) \/ Write(w)

ConcSpec == Init /\ [][ConcNext]_vars

\* ================================================================ claims
\* The fields a user edits, and the snapshot history.
UserFields ==
    {"my_price", "adjusted_future_roe", "adjusted_future_pbr", "note",
     "starred", "owned", "doubtful", "records"}

\* The elements of a list.
Listed(list) == {list[i] : i \in 1..Len(list)}

\* A request was served in this step.
Served == nreq' = nreq + 1

\* ------------------------------------------------------------------- C1
C1_MergeStep ==
    (/\ Served
     /\ last'.saved # None
     /\ "code" \in DOMAIN last'.saved
     /\ FindIdx(store, last'.saved["code"]) # 0)
    => LET p == last'.saved
           i == FindIdx(store, p["code"])
       IN /\ Len(store') = Len(store)
          /\ \A j \in (1..Len(store)) \ {i} : store'[j] = store[j]
          /\ \A k \in DOMAIN store[i] \ DOMAIN p :
                k \in DOMAIN store'[i] /\ store'[i][k] = store[i][k]
          /\ last'.out = "updated" =>
                /\ DOMAIN store'[i] = DOMAIN store[i] \cup DOMAIN p
                /\ \A k \in DOMAIN p : store'[i][k] = p[k]
          /\ last'.op \in {"refresh", "add"} =>
                /\ last'.out = "updated"
                /\ \A k \in UserFields :
                      /\ k \in DOMAIN store'[i] <=> k \in DOMAIN store[i]
                      /\ k \in DOMAIN store[i] => store'[i][k] = store[i][k]

\* C1: save_stock on an existing code is a merge. Every field of the record
\* that the payload omits keeps its value, the other records are untouched,
\* and when the call returns every field of the payload has the payload's
\* value; so an ingestion of an existing code, whose payload has no
\* user-editable key, returns and leaves my_price, adjusted_future_roe,
\* adjusted_future_pbr, note, starred, owned, doubtful and records as they
\* were.
C1_UpsertMerges == [][C1_MergeStep]_vars

\* C1 witness: an ingestion has just updated a record that holds
\* my_price = 5000, note = "watch" and a snapshot.
C1_Witness ==
    /\ last.op = "refresh"
    /\ last.out = "updated"
    /\ LET d == FindOne(store, StrCode(last.code)) IN
          /\ Get(d, "my_price", 0) = 5000
          /\ Get(d, "note", "") = "watch"
          /\ Get(d, "records", <<>>) # <<>>
          /\ d["current_price"] = last.arg
          /\ last.arg = 1024

\* ------------------------------------------------------------------- C2
\* C2: no stored record is starred and owned at once, whatever requests were
\* served; and a toggle that has just set owned on left starred off, and one
\* that has just set starred on left owned off.
C2_StarredOwnedExclusive ==
    /\ \A i \in 1..Len(store) :
          ~(Get(store[i], "starred", FALSE) /\ Get(store[i], "owned", FALSE))
    /\ (/\ last.op = "status"
        /\ last.out = "updated"
        /\ last.arg[1] \in {"owned", "starred"}
        /\ last.arg[2] = "on")
       => LET d == FindOne(store, StrCode(last.code)) IN
          /\ {"starred", "owned"} \subseteq DOMAIN d
          /\ IF last.arg[1] = "owned"
             THEN d["owned"] = TRUE /\ d["starred"] = FALSE
             ELSE d["starred"] = TRUE /\ d["owned"] = FALSE

\* C2 witness: owned has just been toggled on for a record that was starred.
C2_Witness ==
    /\ last.op = "status"
    /\ last.out = "updated"
    /\ last.arg = <<"owned", "on">>
    /\ Get(last.result, "starred", FALSE)

\* ------------------------------------------------------------------- C3
\* The snapshot list has at most one entry per date.
OnePerDate(records) ==
    \A i, j \in 1..Len(records) : i # j => records[i].date # records[j].date

\* C3: every stored records sequence has at most one entry per calendar
\* date; a snapshot taken on the date of the last entry has replaced that
\* entry with its own values and kept the length, and one taken on a later
\* date has appended exactly one entry.
C3_OneSnapshotPerDay ==
    /\ \A i \in 1..Len(store) : OnePerDate(Get(store[i], "records", <<>>))
    /\ (last.op = "save_record" /\ last.out = "updated")
       => LET before == Get(last.result, "records", <<>>)
              after == FindOne(store, StrCode(last.code))["records"]
              n == Len(before)
              mine == Record(last.result, last.arg)
          IN IF n > 0 /\ before[n].date = last.arg
             THEN /\ Len(after) = n
                  /\ SubSeq(after, 1, n - 1) = SubSeq(before, 1, n - 1)
                  /\ after[n] = mine
             ELSE /\ Len(after) = n + 1
                  /\ SubSeq(after, 1, n) = before
                  /\ after[n + 1] = mine

\* C3 witness: a second snapshot on the same day has overwritten the first
\* with different values.
C3_Witness ==
    /\ last.op = "save_record"
    /\ last.out = "updated"
    /\ LET before == Get(last.result, "records", <<>>)
           after == FindOne(store, StrCode(last.code))["records"]
       IN /\ before # <<>>
          /\ before[Len(before)].date = last.arg
          /\ Len(after) = Len(before)
          /\ after[Len(after)] # before[Len(before)]

\* ------------------------------------------------------------------- C6
\* The store-side filter of the list view for a <status> segment, as §4.4
\* states it.
StatusSelects(status, doc) ==
    IF status = "starred" THEN Get(doc, "starred", FALSE) = TRUE
    ELSE IF status = "owned" THEN Get(doc, "owned", FALSE) = TRUE
    ELSE IF status = "starredorowned"
         THEN Get(doc, "starred", FALSE) = TRUE \/ Get(doc, "owned", FALSE) = TRUE
    ELSE IF status = "doubtful" THEN Get(doc, "doubtful", FALSE) = TRUE
    ELSE TRUE

\* The stored records a find filter matches.
Found(find) == {store[i] : i \in {j \in 1..Len(store) : FindMatches(store[j], find)}}

\* C6: for the find filter of the list view just served, a list that
\* all_stocks returns holds exactly the matching records with
\* expected_rate > 0 under filter_bad = True and exactly those with
\* expected_rate < 0 under filter_bad = False; the two lists are disjoint
\* and a record with expected_rate = 0 is in neither. The view itself lists
\* each record once, the negative partition for status "bad" alone and the
\* positive one for every other status. (all_stocks returns unless
\* expected_rate of a matching record raises.)
C6_FilterPartition ==
    last.op = "stocks"
    => /\ last.out = "ok"
          => /\ Listed(last.result) =
                   {d \in Found({}) :
                       /\ StatusSelects(last.arg[1], d)
                       /\ IF last.arg[1] = "bad"
                          THEN RateNegative(ExpectedRate(d))
                          ELSE RatePositive(ExpectedRate(d))}
             /\ Cardinality(Listed(last.result)) = Len(last.result)
       /\ LET find == FindOfStatus(last.arg[1])
              good == AllStocks(store, "title", "asc", find, TRUE)
              bad == AllStocks(store, "title", "asc", find, FALSE)
          IN good.out = "ok" =>
                /\ bad.out = "ok"
                /\ Listed(good.list) =
                      {d \in Found(find) : RatePositive(ExpectedRate(d))}
                /\ Listed(bad.list) =
                      {d \in Found(find) : RateNegative(ExpectedRate(d))}
                /\ Listed(good.list) \cap Listed(bad.list) = {}
                /\ \A d \in Found(find) :
                      ExpectedRate(d).num = ExpectedRate(d).den
                      => d \notin Listed(good.list) \cup Listed(bad.list)

\* C6 witness: the default list view has just listed a store that holds
\* records of positive, zero and negative expected_rate.
C6_Witness ==
    /\ last.op = "stocks"
    /\ last.out = "ok"
    /\ last.arg[1] = ""
    /\ last.result # <<>>
    /\ \E d \in Found({}) : ExpectedRate(d).num = ExpectedRate(d).den
    /\ \E d \in Found({}) : RateNegative(ExpectedRate(d))

\* ------------------------------------------------------------------- C8
C8_SnapshotStep ==
    (Served /\ last'.op = "save_record")
    => /\ Len(store') = Len(store)
       /\ \A i \in 1..Len(store) :
             /\ DOMAIN store'[i] \ {"records"} = DOMAIN store[i] \ {"records"}
             /\ \A k \in DOMAIN store[i] \ {"records"} : store'[i][k] = store[i][k]
       /\ (~Get(last'.result, "starred", FALSE) /\ ~Get(last'.result, "owned", FALSE))
             => store' = store

\* C8: a save_record call leaves every stored field but records as it was,
\* in every record, and leaves the whole store as it was when the stock is
\* neither starred nor owned.
C8_SnapshotTouchesOnlyRecords == [][C8_SnapshotStep]_vars

\* C8 witness: a snapshot has just been stored for a record that carries
\* user fields.
C8_Witness ==
    /\ last.op = "save_record"
    /\ last.out = "updated"
    /\ "my_price" \in DOMAIN last.result
    /\ FindOne(store, StrCode(last.code))["records"] # <<>>

\* ------------------------------------------------- claims the code fails
\* C5: stock_by_code for a code without a record ends in a failure and
\* returns no model instance.
C5_NotFoundFails ==
    (last.op = "stock" /\ FindIdx(store, StrCode(last.code)) = 0)
    => last.out = "error"

\* C7: once GET /stocks/fill has completed it has answered with the
\* redirect, and every starred or owned record of positive expected_rate
\* holds a snapshot of that day as the last entry of records.
C7_FillSnapshotsListed ==
    last.op = "fill"
    => /\ last.out = "redirect"
       /\ \A d \in Found({}) :
             (/\ Get(d, "starred", FALSE) \/ Get(d, "owned", FALSE)
              /\ ~ExpectedRateFails(d)
              /\ RatePositive(ExpectedRate(d)))
             => /\ Get(d, "records", <<>>) # <<>>
                /\ d["records"][Len(d["records"])].date = last.arg

C10_LifecycleStep ==
    Served
    => /\ Len(store') >= Len(store)
       /\ \A i \in 1..Len(store) : store'[i]["_id"] = store[i]["_id"]
       /\ Len(store') # Len(store)
             => /\ last'.op \in {"refresh", "add"}
                /\ FindIdx(store, StrCode(last'.code)) = 0
                /\ Len(store') = Len(store) + 1

\* C10: the set of records changes only by an ingestion inserting a record
\* for a code not seen before; no other request inserts or deletes one.
C10_OnlyIngestionInserts == [][C10_LifecycleStep]_vars

\* The fields a worker's request writes, and their values.
OwnFields(req) ==
    IF req.op = "refresh" THEN DOMAIN IngestPayload(req.code, req.value)
    ELSE {req.field}

OwnValue(req, k) ==
    IF req.op = "refresh" THEN IngestPayload(req.code, req.value)[k]
    ELSE req.value

\* C4: when two concurrent requests on one code that write different fields
\* have both completed their update, the record holds what each wrote.
C4_NoClobber ==
    \A w1, w2 \in Workers :
        (/\ w1 # w2
         /\ workers[w1].pc = "done" /\ workers[w2].pc = "done"
         /\ workers[w1].out = "updated" /\ workers[w2].out = "updated"
         /\ workers[w1].req.code = workers[w2].req.code
         /\ OwnFields(workers[w1].req) \cap OwnFields(workers[w2].req) = {})
        => LET d == FindOne(store, StrCode(workers[w1].req.code)) IN
           \A w \in {w1, w2} : \A k \in OwnFields(workers[w].req) :
               k \in DOMAIN d /\ d[k] = OwnValue(workers[w].req, k)

\* C9: at most one record has any given code, in every state the
\* interleaved saves reach.
C9_CodeUnique ==
    \A i, j \in 1..Len(store) :
        (i # j /\ "code" \in DOMAIN store[i] /\ "code" \in DOMAIN store[j])
        => store[i]["code"] # store[j]["code"]

====
